---- MODULE Spec2Model ----
(***************************************************************************)
(* Maze generation core of maze_generator: the four generators (Eller's,   *)
(* Prim's, Growing Tree, Recursive Backtracking), the connectivity graph,  *)
(* the Maze facade and the breadth-first goal selection.                   *)
(*                                                                         *)
(* A coordinate is a pair <<x, y>>.  A graph is the sequence of its edges  *)
(* <<a, b>> in insertion order (petgraph's GraphMap keeps the adjacency of *)
(* a node in insertion order, and the goal search depends on that order).  *)
(* Every random draw of the code is an existential choice of the action    *)
(* that makes it.                                                          *)
(***************************************************************************)
EXTENDS Integers, Sequences, FiniteSets, TLC

VARIABLES
    alg,                  \* which generator this run is about
    selectionmethod,      \* GrowingTreeGenerator.selectionmethod
    width, height,        \* the arguments of generate
    pc,                   \* position inside generate
    result,               \* "none" while running, then "ok", "panic" or "internal_error"
    maze,                 \* the Maze built by Maze::new: [size, start, goal], or NoMaze
    graph,                \* EllersGenerator.graph / Maze.graph
    sets,                 \* EllersGenerator.sets
    current_y,            \* Eller's: the row being processed
    i_x,                  \* Eller's: loop index of the running pass
    frontier,             \* PrimsGenerator.frontier
    visited,              \* PrimsGenerator.visited / GrowingTreeGenerator.visited
    neighbours,           \* PrimsGenerator.neighbours / GrowingTreeGenerator.neighbours
    cellstack,            \* GrowingTreeGenerator.cellstack
    current_coordinates,  \* Growing Tree: local of carve_passages_from
    goal_coordinates,     \* Growing Tree: local of carve_passages_from
    max_q,                \* Growing Tree: local of carve_passages_from
    data,                 \* RbGrid.data, indexed from 0
    callstack,            \* Recursive Backtracking: the frames of carve_passages_from
    calls                 \* how many times generate was called on the generator

vars == <<alg, selectionmethod, width, height, pc, result, maze, graph, sets,
          current_y, i_x, frontier, visited, neighbours, cellstack,
          current_coordinates, goal_coordinates, max_q, data, callstack, calls>>

----------------------------------------------------------------------------
(* Bounds of the model *)

MaxW == 3
MaxH == 3
MaxCells == 9
MaxCellsRb == 6
SpinCap == 1
MaxCalls == 2
MostRecentW == 5
MostRecentH == 4

(* The sizes generate is called with: every width and height from 0 up to
   the bounds, the grid holding at most MaxCells cells (MaxCellsRb for the
   Recursive Backtracking generator, whose call stack makes for many more
   states per cell). *)
SizesFor(a) ==
    {s \in (0..MaxW) \X (0..MaxH) :
        s[1] * s[2] <= (IF a = "rb" THEN MaxCellsRb ELSE MaxCells)}

NoMaze == [none |-> TRUE]

----------------------------------------------------------------------------
(* Coordinates and directions *)

all == <<"North", "East", "South", "West">>

Directions == {all[i] : i \in 1..4}

(* opposite with West mapped to itself *)
opposite_west_unchanged(d) ==
    CASE d = "North" -> "South"
      [] d = "East"  -> "West"
      [] d = "South" -> "North"
      [] d = "West"  -> "West"

opposite(d) ==
    CASE d = "North" -> "South"
      [] d = "East"  -> "West"
      [] d = "South" -> "North"
      [] d = "West"  -> "East"

next(c, d) ==
    << c[1] + (CASE d = "East" -> 1 [] d = "West" -> -1 [] OTHER -> 0),
       c[2] + (CASE d = "North" -> -1 [] d = "South" -> 1 [] OTHER -> 0) >>

are_coordinates_inside(size, c) ==
    /\ c[1] >= 0
    /\ c[1] < size[1]
    /\ c[2] >= 0
    /\ c[2] < size[2]

(* derived Ord of Coordinates: x first, then y *)
CoordLess(a, b) == a[1] < b[1] \/ (a[1] = b[1] /\ a[2] < b[2])

----------------------------------------------------------------------------
(* Sequences used as Vec *)

Contains(s, x) == \E i \in 1..Len(s) : s[i] = x

(* Vec position: the first index holding x (1-based), 0 when absent *)
Position(s, x) ==
    IF Contains(s, x) THEN CHOOSE i \in 1..Len(s) : s[i] = x /\ \A j \in 1..(i-1) : s[j] # x
    ELSE 0

(* Vec::remove leaving the element where it is *)
Remove_leaves_in_place(s, idx) == s

Remove(s, idx) == [i \in 1..(Len(s) - 1) |-> IF i < idx THEN s[i] ELSE s[i + 1]]

RECURSIVE SortedSeq(_)
SortedSeq(S) ==
    IF S = {} THEN <<>>
    ELSE LET m == CHOOSE a \in S : \A b \in S \ {a} : CoordLess(a, b)
         IN  <<m>> \o SortedSeq(S \ {m})

----------------------------------------------------------------------------
(* MazeGraph = GraphMap<Coordinates, (), Undirected> *)

contains_edge(g, a, b) ==
    \E i \in 1..Len(g) : g[i] = <<a, b>> \/ g[i] = <<b, a>>

add_edge(g, a, b) == IF contains_edge(g, a, b) THEN g ELSE Append(g, <<a, b>>)

neighbors(g, c) ==
    LET f[i \in 0..Len(g)] ==
            IF i = 0 THEN <<>>
            ELSE IF g[i][1] = c THEN Append(f[i-1], g[i][2])
            ELSE IF g[i][2] = c THEN Append(f[i-1], g[i][1])
            ELSE f[i-1]
    IN  f[Len(g)]

RECURSIVE bfs_loop(_, _, _, _)
bfs_loop(g, queue, already_visited, last_coords) ==
    IF queue = <<>> THEN last_coords
    ELSE LET i_coords == Head(queue)
         IN  bfs_loop(g,
                      Tail(queue) \o SelectSeq(neighbors(g, i_coords),
                                               LAMBDA c : c \notin already_visited),
                      already_visited \cup {i_coords},
                      i_coords)

find_suitable_goal(g, start) == bfs_loop(g, neighbors(g, start), {}, start)

----------------------------------------------------------------------------
(* Maze *)

(* Maze::new: the two debug_assert!s fire only in a build with debug
   assertions; otherwise a Maze of any size is built. *)
MazeNewPanics(w, h, debug_assertions) == debug_assertions /\ (w <= 0 \/ h <= 0)

(* Maze::new putting the start at the corner past the last cell *)
MazeNew_start_at_size(w, h, start, goal) ==
    [size |-> <<w, h>>, start |-> <<w, h>>, goal |-> goal]

MazeNew(w, h, start, goal) == [size |-> <<w, h>>, start |-> start, goal |-> goal]

(* Option<Field>::None *)
None == [is_some |-> FALSE]

(* get_field taking the width and the height as the last column and row *)
get_field_inclusive_bounds(m, g, c) ==
    IF c[1] >= 0 /\ c[1] <= m.size[1] /\ c[2] >= 0 /\ c[2] <= m.size[2]
    THEN [ is_some     |-> TRUE,
           passages    |-> SelectSeq(all, LAMBDA d : contains_edge(g, c, next(c, d))),
           field_type  |-> IF m.start = c THEN "Start"
                           ELSE IF m.goal = c THEN "Goal" ELSE "Normal",
           coordinates |-> c ]
    ELSE None

(* Maze::get_field: None, or Some(Field) for the Field at the coordinates *)
get_field(m, g, c) ==
    IF are_coordinates_inside(m.size, c)
    THEN [ is_some     |-> TRUE,
           passages    |-> SelectSeq(all, LAMBDA d : contains_edge(g, c, next(c, d))),
           field_type  |-> IF m.start = c THEN "Start"
                           ELSE IF m.goal = c THEN "Goal" ELSE "Normal",
           coordinates |-> c ]
    ELSE None

has_passage(field, d) == Contains(field.passages, d)

----------------------------------------------------------------------------
(* Eller's algorithm *)

(* FindSet giving the first non-empty set, whatever the field *)
FindSet_first_nonempty(ss, field) ==
    IF \E i \in 1..Len(ss) : ss[i] # {}
    THEN CHOOSE i \in 1..Len(ss) : ss[i] # {} /\ \A j \in 1..(i-1) : ss[j] = {}
    ELSE 0

(* sets.iter().find(|set| set.contains(&field)): index of the first set
   holding the field, 0 when no set holds it *)
FindSet(ss, field) ==
    IF \E i \in 1..Len(ss) : field \in ss[i]
    THEN CHOOSE i \in 1..Len(ss) : field \in ss[i] /\ \A j \in 1..(i-1) : field \notin ss[j]
    ELSE 0

(* join_sets_of_fields leaving the second set in place instead of clearing it *)
join_sets_of_fields_keeps_second(ss, g, field1, field2) ==
    LET f1 == FindSet(ss, field1)
        f2 == FindSet(ss, field2)
    IN  IF f1 = 0 \/ f2 = 0 THEN [err |-> TRUE, sets |-> ss, graph |-> g]
        ELSE LET set1 == ss[f1]
                 set2 == ss[f2]
                 index1 == Position(ss, set1)
                 index2 == Position(ss, set2)
             IN  IF set1 # set2
                 THEN IF index1 = 0 \/ index2 = 0
                      THEN [err |-> TRUE, sets |-> ss, graph |-> g]
                      ELSE [err   |-> FALSE,
                            sets  |-> [ss EXCEPT ![index1] = set1 \cup set2],
                            graph |-> add_edge(g, field1, field2)]
                 ELSE [err |-> FALSE, sets |-> ss, graph |-> g]

(* join_sets_of_fields: err is TRUE on the InternalError returns *)
join_sets_of_fields(ss, g, field1, field2) ==
    LET f1 == FindSet(ss, field1)
        f2 == FindSet(ss, field2)
    IN  IF f1 = 0 \/ f2 = 0 THEN [err |-> TRUE, sets |-> ss, graph |-> g]
        ELSE LET set1 == ss[f1]
                 set2 == ss[f2]
                 index1 == Position(ss, set1)
                 index2 == Position(ss, set2)
             IN  IF set1 # set2
                 THEN IF index1 = 0 \/ index2 = 0
                      THEN [err |-> TRUE, sets |-> ss, graph |-> g]
                      ELSE [err   |-> FALSE,
                            sets  |-> [[ss EXCEPT ![index1] = set1 \cup set2]
                                           EXCEPT ![index2] = {}],
                            graph |-> add_edge(g, field1, field2)]
                 ELSE [err |-> FALSE, sets |-> ss, graph |-> g]

init_fields_first_row(w) == [x \in 1..w |-> {<<x - 1, 0>>}]

(* InLoopRange with the loop ending one pair early *)
InLoopRange_one_short(ss, i) == IF Len(ss) = 0 THEN TRUE ELSE i < Len(ss) - 2

(* `i in 0..(self.sets.len() - 1)` in usize arithmetic: with no set the
   subtraction overflows and, when overflow checks are off, wraps to
   usize::MAX, which no index of the model reaches *)
InLoopRange(ss, i) == IF Len(ss) = 0 THEN TRUE ELSE i < Len(ss) - 1

(* create_downward_connections: the cells of a set on the current row, in
   the iteration order of the BTreeSet *)
bottom_most_fields(i_set, y) == SortedSeq({c \in i_set : c[2] = y})

(* DownwardCount connecting every current-row member of the set *)
DownwardCount_every_member(bottom) == Len(bottom)

(* create_downward_connections: how many downward connections to add; 0
   stands for the gen_range(1, 0) call, which panics *)
DownwardCount(bottom) == IF bottom # <<>> THEN 1 ELSE 0

(* ChooseMultiple that may also select no element at all *)
ChooseMultiple_or_none(len, count) ==
    LET n == IF count < len THEN count ELSE len
    IN  {sel \in [1..n -> 1..len] : \A i, j \in 1..n : sel[i] = sel[j] => i = j}
            \cup {<<>>}

(* choose_multiple(rng, count): the possible selections, as sequences of
   distinct indices into the slice *)
ChooseMultiple(len, count) ==
    LET n == IF count < len THEN count ELSE len
    IN  {sel \in [1..n -> 1..len] : \A i, j \in 1..n : sel[i] = sel[j] => i = j}

RECURSIVE ConnectDown(_, _, _, _, _)
ConnectDown(i_set, g, bottom, sel, k) ==
    IF k > Len(sel) THEN [set |-> i_set, graph |-> g]
    ELSE LET coordinates == bottom[sel[k]]
             next_coords == next(coordinates, "South")
         IN  ConnectDown(i_set \cup {next_coords},
                         add_edge(g, coordinates, next_coords), bottom, sel, k + 1)

(* flesh_out_next_row putting a cell into the first slot, empty or not *)
RECURSIVE flesh_out_next_row_into_first(_, _, _)
flesh_out_next_row_into_first(ss, ix, next_y) ==
    IF ix >= Len(ss) THEN [err |-> FALSE, sets |-> ss]
    ELSE LET coordinates == <<ix, next_y>>
         IN  IF \E i \in 1..Len(ss) : coordinates \in ss[i]
             THEN flesh_out_next_row_into_first(ss, ix + 1, next_y)
             ELSE IF Len(ss) = 0 THEN [err |-> TRUE, sets |-> ss]
                  ELSE flesh_out_next_row_into_first(
                           [ss EXCEPT ![1] = ss[1] \cup {coordinates}],
                           ix + 1, next_y)

(* flesh_out_next_row from loop index ix (0-based) on *)
RECURSIVE flesh_out_next_row(_, _, _)
flesh_out_next_row(ss, ix, next_y) ==
    IF ix >= Len(ss) THEN [err |-> FALSE, sets |-> ss]
    ELSE LET coordinates == <<ix, next_y>>
         IN  IF \E i \in 1..Len(ss) : coordinates \in ss[i]
             THEN flesh_out_next_row(ss, ix + 1, next_y)
             ELSE LET e == Position(ss, {})
                  IN  IF e = 0 THEN [err |-> TRUE, sets |-> ss]
                      ELSE flesh_out_next_row([ss EXCEPT ![e] = {coordinates}],
                                              ix + 1, next_y)

(* join_last_rows with the loop running up to the last index inclusive *)
RECURSIVE join_last_rows_one_more(_, _, _, _)
join_last_rows_one_more(ss, g, ix, y) ==
    IF ix > Len(ss) - 1 THEN [err |-> FALSE, sets |-> ss, graph |-> g]
    ELSE LET r == join_sets_of_fields(ss, g, <<ix, y>>, <<ix + 1, y>>)
         IN  IF r.err THEN r ELSE join_last_rows_one_more(r.sets, r.graph, ix + 1, y)

(* join_last_rows from loop index ix (0-based) on *)
RECURSIVE join_last_rows(_, _, _, _)
join_last_rows(ss, g, ix, y) ==
    IF ~InLoopRange(ss, ix) THEN [err |-> FALSE, sets |-> ss, graph |-> g]
    ELSE LET r == join_sets_of_fields(ss, g, <<ix, y>>, <<ix + 1, y>>)
         IN  IF r.err THEN r ELSE join_last_rows(r.sets, r.graph, ix + 1, y)

EllersUnchanged ==
    UNCHANGED <<alg, selectionmethod, width, height, frontier, visited, neighbours,
                cellstack, current_coordinates, goal_coordinates, max_q, data,
                callstack, calls>>

(* generate, up to the row loop *)
EllersGenerate ==
    /\ alg = "ellers"
    /\ pc = "start"
    /\ graph' = <<>>
    /\ sets' = init_fields_first_row(width)
    /\ current_y' = 0
    /\ i_x' = 0
    /\ pc' = "row"
    /\ UNCHANGED <<result, maze>>
    /\ EllersUnchanged

(* EllersNextRow with the row loop running over the last row as well *)
EllersNextRow_one_row_more ==
    /\ alg = "ellers"
    /\ pc = "row"
    /\ i_x' = 0
    /\ IF current_y < height
       THEN IF Len(sets) = 0
            THEN \E overflow_checks \in BOOLEAN :
                    IF overflow_checks
                    THEN pc' = "done" /\ result' = "panic"
                    ELSE pc' = "join" /\ UNCHANGED result
            ELSE /\ pc' = IF InLoopRange(sets, 0) THEN "join" ELSE "down"
                 /\ UNCHANGED result
       ELSE pc' = "last" /\ UNCHANGED result
    /\ UNCHANGED <<maze, graph, sets, current_y>>
    /\ EllersUnchanged

(* The head of `for y in 0..(height - 1)` and the entry into
   randomly_join_fields *)
EllersNextRow ==
    /\ alg = "ellers"
    /\ pc = "row"
    /\ i_x' = 0
    /\ IF current_y < height - 1
       THEN IF Len(sets) = 0
            THEN \E overflow_checks \in BOOLEAN :
                    IF overflow_checks
                    THEN pc' = "done" /\ result' = "panic"
                    ELSE pc' = "join" /\ UNCHANGED result
            ELSE /\ pc' = IF InLoopRange(sets, 0) THEN "join" ELSE "down"
                 /\ UNCHANGED result
       ELSE pc' = "last" /\ UNCHANGED result
    /\ UNCHANGED <<maze, graph, sets, current_y>>
    /\ EllersUnchanged

(* One iteration of the loop of randomly_join_fields *)
EllersRandomlyJoin ==
    /\ alg = "ellers"
    /\ pc = "join"
    /\ InLoopRange(sets, i_x)
    /\ \E gen_bool \in BOOLEAN :
        LET r == IF gen_bool
                 THEN join_sets_of_fields(sets, graph, <<i_x, current_y>>,
                                          <<i_x + 1, current_y>>)
                 ELSE [err |-> FALSE, sets |-> sets, graph |-> graph]
        IN  IF r.err
            THEN /\ pc' = "done"
                 /\ result' = "internal_error"
                 /\ UNCHANGED <<sets, graph, i_x>>
            ELSE /\ sets' = r.sets
                 /\ graph' = r.graph
                 /\ UNCHANGED result
                 /\ IF ~InLoopRange(sets, i_x + 1)
                    THEN pc' = "down" /\ i_x' = 0
                    ELSE /\ pc' = "join"
                         /\ i_x' = IF Len(sets) = 0 /\ i_x >= SpinCap
                                   THEN i_x ELSE i_x + 1
    /\ UNCHANGED <<maze, current_y>>
    /\ EllersUnchanged

(* One iteration of the loop of create_downward_connections *)
EllersCreateDownward ==
    /\ alg = "ellers"
    /\ pc = "down"
    /\ i_x < Len(sets)
    /\ LET i_set  == sets[i_x + 1]
           bottom == bottom_most_fields(i_set, current_y)
           count  == DownwardCount(bottom)
           after  == IF i_x + 1 >= Len(sets) THEN "flesh" ELSE "down"
       IN  IF i_set = {}
           THEN /\ pc' = after
                /\ i_x' = i_x + 1
                /\ UNCHANGED <<sets, graph, result>>
           ELSE IF count = 0
           THEN /\ pc' = "done"
                /\ result' = "panic"
                /\ UNCHANGED <<sets, graph, i_x>>
           ELSE \E sel \in ChooseMultiple(Len(bottom), count) :
                  LET r == ConnectDown(i_set, graph, bottom, sel, 1)
                  IN  /\ sets' = [sets EXCEPT ![i_x + 1] = r.set]
                      /\ graph' = r.graph
                      /\ pc' = after
                      /\ i_x' = i_x + 1
                      /\ UNCHANGED result
    /\ UNCHANGED <<maze, current_y>>
    /\ EllersUnchanged

(* flesh_out_next_row, then the next turn of the row loop *)
EllersFleshOut ==
    /\ alg = "ellers"
    /\ pc = "flesh"
    /\ LET r == flesh_out_next_row(sets, 0, current_y + 1)
       IN  IF r.err
           THEN /\ pc' = "done"
                /\ result' = "internal_error"
                /\ UNCHANGED <<sets, current_y>>
           ELSE /\ sets' = r.sets
                /\ current_y' = current_y + 1
                /\ pc' = "row"
                /\ UNCHANGED result
    /\ i_x' = 0
    /\ UNCHANGED <<maze, graph>>
    /\ EllersUnchanged

(* EllersJoinLastRows with the loop of join_last_rows starting at index 1 *)
EllersJoinLastRows_skips_first ==
    /\ alg = "ellers"
    /\ pc = "last"
    /\ \E overflow_checks \in BOOLEAN :
         IF Len(sets) = 0 /\ overflow_checks
         THEN /\ pc' = "done"
              /\ result' = "panic"
              /\ UNCHANGED <<sets, graph>>
         ELSE LET r == join_last_rows(sets, graph, 1, height - 1)
              IN  IF r.err
                  THEN /\ pc' = "done"
                       /\ result' = "internal_error"
                       /\ UNCHANGED <<sets, graph>>
                  ELSE /\ sets' = r.sets
                       /\ graph' = r.graph
                       /\ pc' = "finish"
                       /\ UNCHANGED result
    /\ UNCHANGED <<maze, current_y, i_x>>
    /\ EllersUnchanged

(* join_last_rows(height - 1) *)
EllersJoinLastRows ==
    /\ alg = "ellers"
    /\ pc = "last"
    /\ \E overflow_checks \in BOOLEAN :
         IF Len(sets) = 0 /\ overflow_checks
         THEN /\ pc' = "done"
              /\ result' = "panic"
              /\ UNCHANGED <<sets, graph>>
         ELSE LET r == join_last_rows(sets, graph, 0, height - 1)
              IN  IF r.err
                  THEN /\ pc' = "done"
                       /\ result' = "internal_error"
                       /\ UNCHANGED <<sets, graph>>
                  ELSE /\ sets' = r.sets
                       /\ graph' = r.graph
                       /\ pc' = "finish"
                       /\ UNCHANGED result
    /\ UNCHANGED <<maze, current_y, i_x>>
    /\ EllersUnchanged

(* The end of generate: the Maze and its goal *)
EllersFinish ==
    /\ alg = "ellers"
    /\ pc = "finish"
    /\ \E debug_assertions \in BOOLEAN :
         IF MazeNewPanics(width, height, debug_assertions)
         THEN /\ result' = "panic"
              /\ UNCHANGED maze
         ELSE /\ result' = "ok"
              /\ maze' = [MazeNew(width, height, <<0, 0>>, <<0, 0>>)
                            EXCEPT !.goal = find_suitable_goal(graph, <<0, 0>>)]
    /\ pc' = "done"
    /\ UNCHANGED <<graph, sets, current_y, i_x>>
    /\ EllersUnchanged

----------------------------------------------------------------------------
(* Prim's algorithm *)

(* AddToFrontier without the test that the cell is not yet in the frontier *)
RECURSIVE AddToFrontier_no_frontier_test(_, _, _, _, _)
AddToFrontier_no_frontier_test(fr, vis, size, c, i) ==
    IF i > Len(all) THEN fr
    ELSE LET next_coords == next(c, all[i])
         IN  IF /\ are_coordinates_inside(size, next_coords)
                /\ ~Contains(vis, next_coords)
             THEN AddToFrontier_no_frontier_test(Append(fr, next_coords), vis, size, c, i + 1)
             ELSE AddToFrontier_no_frontier_test(fr, vis, size, c, i + 1)

(* The last loop of mark_cell: the unvisited neighbours, direction by
   direction from index i on, are pushed on the frontier *)
RECURSIVE AddToFrontier(_, _, _, _, _)
AddToFrontier(fr, vis, size, c, i) ==
    IF i > Len(all) THEN fr
    ELSE LET next_coords == next(c, all[i])
         IN  IF /\ are_coordinates_inside(size, next_coords)
                /\ ~Contains(fr, next_coords)
                /\ ~Contains(vis, next_coords)
             THEN AddToFrontier(Append(fr, next_coords), vis, size, c, i + 1)
             ELSE AddToFrontier(fr, vis, size, c, i + 1)

(* mark_cell without the push of the cell on the visited list *)
mark_cell_not_visited(fr, vis, size, c) ==
    LET idx  == Position(fr, c)
        fr1  == IF Contains(fr, c) /\ idx # 0 THEN Remove(fr, idx) ELSE fr
    IN  [err      |-> Contains(fr, c) /\ idx = 0,
         visited  |-> vis,
         frontier |-> AddToFrontier(fr1, vis, size, c, 1)]

(* mark_cell: err is TRUE on the InternalError return *)
mark_cell(fr, vis, size, c) ==
    LET vis1 == IF ~Contains(vis, c) THEN Append(vis, c) ELSE vis
        idx  == Position(fr, c)
        fr1  == IF Contains(fr, c) /\ idx # 0 THEN Remove(fr, idx) ELSE fr
    IN  [err      |-> Contains(fr, c) /\ idx = 0,
         visited  |-> vis1,
         frontier |-> AddToFrontier(fr1, vis1, size, c, 1)]

(* find_visited_neighbours giving every neighbour inside the grid, visited or not *)
find_visited_neighbours_all_inside(vis, size, c) ==
    SelectSeq([i \in 1..Len(all) |-> next(c, all[i])],
              LAMBDA n : are_coordinates_inside(size, n))

(* The neighbours of a cell inside the grid that are visited *)
find_visited_neighbours(vis, size, c) ==
    SelectSeq([i \in 1..Len(all) |-> next(c, all[i])],
              LAMBDA n : are_coordinates_inside(size, n) /\ Contains(vis, n))

PrimsUnchanged ==
    UNCHANGED <<alg, selectionmethod, width, height, sets, current_y, i_x, cellstack,
                current_coordinates, goal_coordinates, max_q, data, callstack, calls>>

(* generate up to the loop of carve_passages_from: Maze::new and the
   marking of the start cell *)
PrimsGenerate ==
    /\ alg = "prims"
    /\ pc = "start"
    /\ \E debug_assertions \in BOOLEAN :
         IF MazeNewPanics(width, height, debug_assertions)
         THEN /\ pc' = "done"
              /\ result' = "panic"
              /\ UNCHANGED <<maze, graph, frontier, visited>>
         ELSE LET m == mark_cell(frontier, visited, <<width, height>>, <<0, 0>>)
              IN  /\ maze' = MazeNew(width, height, <<0, 0>>, <<0, 0>>)
                  /\ graph' = <<>>
                  /\ IF m.err
                     THEN /\ pc' = "done"
                          /\ result' = "internal_error"
                          /\ UNCHANGED <<frontier, visited>>
                     ELSE /\ pc' = "loop"
                          /\ frontier' = m.frontier
                          /\ visited' = m.visited
                          /\ UNCHANGED result
    /\ UNCHANGED neighbours
    /\ PrimsUnchanged

(* One iteration of the loop of carve_passages_from *)
PrimsCarve ==
    /\ alg = "prims"
    /\ pc = "loop"
    /\ frontier # <<>>
    /\ \E i \in 1..Len(frontier) :
         LET next_coords == frontier[i]
             nb == find_visited_neighbours(visited, maze.size, next_coords)
         IN  /\ neighbours' = nb
             /\ IF nb # <<>>
                THEN \E j \in 1..Len(nb) :
                       LET ncell == nb[j]
                           m == mark_cell(frontier, visited, maze.size, next_coords)
                       IN  /\ graph' = add_edge(graph, next_coords, ncell)
                           /\ IF m.err
                              THEN /\ pc' = "done"
                                   /\ result' = "internal_error"
                                   /\ UNCHANGED <<frontier, visited>>
                              ELSE /\ pc' = "loop"
                                   /\ frontier' = m.frontier
                                   /\ visited' = m.visited
                                   /\ UNCHANGED result
                ELSE /\ frontier' = <<>>
                     /\ UNCHANGED <<graph, visited, pc, result>>
    /\ UNCHANGED maze
    /\ PrimsUnchanged

(* The frontier is empty: the goal is searched and the maze returned *)
PrimsFinish ==
    /\ alg = "prims"
    /\ pc = "loop"
    /\ frontier = <<>>
    /\ maze' = [maze EXCEPT !.goal = find_suitable_goal(graph, <<0, 0>>)]
    /\ pc' = "done"
    /\ result' = "ok"
    /\ UNCHANGED <<graph, frontier, visited, neighbours>>
    /\ PrimsUnchanged

----------------------------------------------------------------------------
(* Growing Tree *)

SelectionMethods == {0, 1, 2, 3}

find_unvisited_neighbours(vis, size, c) ==
    SelectSeq([i \in 1..Len(all) |-> next(c, all[i])],
              LAMBDA n : are_coordinates_inside(size, n) /\ ~Contains(vis, n))

(* RemoveCurrent taking the last cell off the stack instead of the current one *)
RemoveCurrent_pops_last(cs, c) ==
    IF Contains(cs, c) THEN SubSeq(cs, 1, Len(cs) - 1) ELSE cs

(* The dead-end branch of carve_passages_from: the cell stack once the
   current cell is taken off it *)
RemoveCurrent(cs, c) == IF Contains(cs, c) THEN Remove(cs, Position(cs, c)) ELSE cs

(* SelectCell with Random taking the selected cell off the stack *)
SelectCell_random_removes(method, cs, r) ==
    CASE method = 1 -> [current |-> cs[Len(cs)], cellstack |-> SubSeq(cs, 1, Len(cs) - 1)]
      [] method = 2 -> [current |-> cs[r], cellstack |-> Remove(cs, r)]
      [] OTHER      -> [current |-> cs[1], cellstack |-> Remove(cs, 1)]

(* The `match self.selectionmethod`: the new current cell and the cell
   stack it leaves, for the index r drawn by gen_range (used by 2 only) *)
SelectCell(method, cs, r) ==
    CASE method = 1 -> [current |-> cs[Len(cs)], cellstack |-> SubSeq(cs, 1, Len(cs) - 1)]
      [] method = 2 -> [current |-> cs[r], cellstack |-> cs]
      [] OTHER      -> [current |-> cs[1], cellstack |-> Remove(cs, 1)]

GtUnchanged ==
    UNCHANGED <<alg, width, height, sets, current_y, i_x, frontier, data, callstack,
                calls>>

set_selectionmethod ==
    /\ alg = "growing_tree"
    /\ pc = "start"
    /\ \E m \in SelectionMethods : selectionmethod' = m
    /\ UNCHANGED <<pc, result, maze, graph, visited, neighbours, cellstack,
                   current_coordinates, goal_coordinates, max_q>>
    /\ GtUnchanged

(* generate up to the loop of carve_passages_from *)
GtGenerate ==
    /\ alg = "growing_tree"
    /\ pc = "start"
    /\ \E debug_assertions \in BOOLEAN :
         IF MazeNewPanics(width, height, debug_assertions)
         THEN /\ pc' = "done"
              /\ result' = "panic"
              /\ UNCHANGED <<maze, graph, visited, cellstack, current_coordinates,
                             goal_coordinates, max_q>>
         ELSE /\ maze' = MazeNew(width, height, <<0, 0>>, <<0, 0>>)
              /\ graph' = <<>>
              /\ current_coordinates' = <<0, 0>>
              /\ goal_coordinates' = <<0, 0>>
              /\ max_q' = 0
              /\ cellstack' = <<(<<0, 0>>)>>
              /\ visited' = Append(visited, <<0, 0>>)
              /\ pc' = "loop"
              /\ UNCHANGED result
    /\ UNCHANGED <<selectionmethod, neighbours>>
    /\ GtUnchanged

(* GtDeadEnd leaving the current cell on the stack *)
GtDeadEnd_keeps_current ==
    /\ alg = "growing_tree"
    /\ pc = "loop"
    /\ cellstack # <<>>
    /\ find_unvisited_neighbours(visited, maze.size, current_coordinates) = <<>>
    /\ neighbours' = <<>>
    /\ LET cs == cellstack
       IN  \E r \in 1..Len(cs) :
             LET sel == SelectCell(selectionmethod, cs, r)
             IN  /\ current_coordinates' = sel.current
                 /\ cellstack' = sel.cellstack
    /\ UNCHANGED <<selectionmethod, pc, result, maze, graph, visited, goal_coordinates,
                   max_q>>
    /\ GtUnchanged

(* A loop iteration that finds no unvisited neighbour *)
GtDeadEnd ==
    /\ alg = "growing_tree"
    /\ pc = "loop"
    /\ cellstack # <<>>
    /\ find_unvisited_neighbours(visited, maze.size, current_coordinates) = <<>>
    /\ neighbours' = <<>>
    /\ LET cs == RemoveCurrent(cellstack, current_coordinates)
       IN  IF cs = <<>>
           THEN /\ cellstack' = cs
                /\ UNCHANGED current_coordinates
           ELSE \E r \in 1..Len(cs) :
                  LET sel == SelectCell(selectionmethod, cs, r)
                  IN  /\ current_coordinates' = sel.current
                      /\ cellstack' = sel.cellstack
    /\ UNCHANGED <<selectionmethod, pc, result, maze, graph, visited, goal_coordinates,
                   max_q>>
    /\ GtUnchanged

(* GtCarve drawing a random neighbour twice: the passage goes to one
   neighbour, the walk moves on to another *)
GtCarve_draws_twice ==
    /\ alg = "growing_tree"
    /\ pc = "loop"
    /\ cellstack # <<>>
    /\ LET nb == find_unvisited_neighbours(visited, maze.size, current_coordinates)
       IN  /\ nb # <<>>
           /\ neighbours' = nb
           /\ \E r, r2 \in 1..Len(nb) :
                LET next_coords == nb[r2]
                IN  /\ graph' = add_edge(graph, current_coordinates, nb[r])
                    /\ cellstack' = Append(cellstack, next_coords)
                    /\ current_coordinates' = next_coords
                    /\ visited' = Append(visited, next_coords)
                    /\ IF Len(cellstack) + 1 > max_q
                       THEN /\ max_q' = Len(cellstack) + 1
                            /\ goal_coordinates' = next_coords
                       ELSE UNCHANGED <<max_q, goal_coordinates>>
    /\ UNCHANGED <<selectionmethod, pc, result, maze>>
    /\ GtUnchanged

(* A loop iteration that carves a passage to an unvisited neighbour *)
GtCarve ==
    /\ alg = "growing_tree"
    /\ pc = "loop"
    /\ cellstack # <<>>
    /\ LET nb == find_unvisited_neighbours(visited, maze.size, current_coordinates)
       IN  /\ nb # <<>>
           /\ neighbours' = nb
           /\ \E r \in 1..Len(nb) :
                LET next_coords == nb[r]
                IN  /\ graph' = add_edge(graph, current_coordinates, next_coords)
                    /\ cellstack' = Append(cellstack, next_coords)
                    /\ current_coordinates' = next_coords
                    /\ visited' = Append(visited, next_coords)
                    /\ IF Len(cellstack) + 1 > max_q
                       THEN /\ max_q' = Len(cellstack) + 1
                            /\ goal_coordinates' = next_coords
                       ELSE UNCHANGED <<max_q, goal_coordinates>>
    /\ UNCHANGED <<selectionmethod, pc, result, maze>>
    /\ GtUnchanged

(* GtFinish storing the last current cell as the goal *)
GtFinish_goal_is_current ==
    /\ alg = "growing_tree"
    /\ pc = "loop"
    /\ cellstack = <<>>
    /\ maze' = [maze EXCEPT !.goal = current_coordinates]
    /\ pc' = "done"
    /\ result' = "ok"
    /\ UNCHANGED <<selectionmethod, graph, visited, neighbours, cellstack,
                   current_coordinates, goal_coordinates, max_q>>
    /\ GtUnchanged

(* The cell stack is empty: generate stores the goal and returns *)
GtFinish ==
    /\ alg = "growing_tree"
    /\ pc = "loop"
    /\ cellstack = <<>>
    /\ maze' = [maze EXCEPT !.goal = goal_coordinates]
    /\ pc' = "done"
    /\ result' = "ok"
    /\ UNCHANGED <<selectionmethod, graph, visited, neighbours, cellstack,
                   current_coordinates, goal_coordinates, max_q>>
    /\ GtUnchanged

----------------------------------------------------------------------------
(* Recursive Backtracking *)

NORTH == 1
EAST  == 2
SOUTH == 4
WEST  == 8
NONE  == 0

(* From<&Direction> for PassageFlags *)
PassageFlag(d) ==
    CASE d = "North" -> NORTH
      [] d = "East"  -> EAST
      [] d = "South" -> SOUTH
      [] d = "West"  -> WEST

(* RbField::has_passage: passages & flag == flag, the flag being one bit *)
rb_has_passage(passages, d) == (passages \div PassageFlag(d)) % 2 = 1

(* add_passage assigning the flag instead of or-ing it in *)
add_passage_overwrites(passages, d) == PassageFlag(d)

(* RbField::add_passage: passages | flag *)
add_passage(passages, d) ==
    IF rb_has_passage(passages, d) THEN passages ELSE passages + PassageFlag(d)

is_untouched(passages) == passages = NONE

coords2index(size, c) == (c[2] * size[1]) + c[1]

(* RbGrid::set_field, called with coordinates inside the grid *)
set_field(d, size, c, field) == [d EXCEPT ![coords2index(size, c)] = field]

RbUnchanged ==
    UNCHANGED <<alg, selectionmethod, width, height, graph, sets, current_y, i_x,
                frontier, visited, neighbours, cellstack, current_coordinates,
                goal_coordinates, max_q, calls>>

(* Direction::gen_random_order: shuffle yields any order of the four
   directions.  The order is revealed as the loop of carve_passages_from
   consumes it: a frame keeps the set of the directions its loop has not
   reached yet, and the next direction of the shuffled array is any of them. *)
gen_random_order == Directions

(* generate: the grid of untouched fields and the call of
   carve_passages_from((0, 0)) *)
RbGenerate ==
    /\ alg = "rb"
    /\ pc = "start"
    /\ maze' = [size |-> <<width, height>>, start |-> <<0, 0>>, goal |-> <<0, 0>>]
    /\ data' = [i \in 0..(width * height - 1) |-> NONE]
    /\ callstack' = << [coordinates |-> <<0, 0>>, dirs |-> gen_random_order] >>
    /\ pc' = "carve"
    /\ UNCHANGED result
    /\ RbUnchanged

(* The step of carve_passages_from for direction i_dir, in the frame on top
   of the call stack *)
CarveDirection(top, below, i_dir) ==
    LET nxt  == next(top.coordinates, i_dir)
        rest == [top EXCEPT !.dirs = top.dirs \ {i_dir}]
    IN  IF /\ are_coordinates_inside(maze.size, nxt)
           /\ is_untouched(data[coords2index(maze.size, nxt)])
        THEN LET d1 == set_field(data, maze.size, nxt,
                          add_passage(data[coords2index(maze.size, nxt)],
                                      opposite(i_dir)))
                 d2 == set_field(d1, maze.size, top.coordinates,
                          add_passage(d1[coords2index(maze.size, top.coordinates)],
                                      i_dir))
             IN  /\ data' = d2
                 /\ callstack' = Append(Append(below, rest),
                                   [coordinates |-> nxt, dirs |-> gen_random_order])
        ELSE /\ callstack' = Append(below, rest)
             /\ UNCHANGED data

(* One step of the innermost running carve_passages_from: its next
   direction, or its return when no direction is left *)
RbCarve ==
    /\ alg = "rb"
    /\ pc = "carve"
    /\ callstack # <<>>
    /\ LET top   == callstack[Len(callstack)]
           below == SubSeq(callstack, 1, Len(callstack) - 1)
       IN  IF top.dirs = {}
           THEN /\ callstack' = below
                /\ UNCHANGED data
           ELSE \E i_dir \in top.dirs : CarveDirection(top, below, i_dir)
    /\ UNCHANGED <<pc, result, maze>>
    /\ RbUnchanged

(* The outermost carve_passages_from has returned: generate returns the grid *)
RbFinish ==
    /\ alg = "rb"
    /\ pc = "carve"
    /\ callstack = <<>>
    /\ pc' = "done"
    /\ result' = "ok"
    /\ UNCHANGED <<maze, data, callstack>>
    /\ RbUnchanged

----------------------------------------------------------------------------
(* The system: one call of generate on a fresh generator *)

Algorithms == {"ellers", "prims", "growing_tree", "rb"}

InitFor(A) ==
    /\ alg \in A
    /\ \E s \in SizesFor(alg) : width = s[1] /\ height = s[2]
    /\ selectionmethod = 0
    /\ pc = "start"
    /\ result = "none"
    /\ maze = NoMaze
    /\ graph = <<>>
    /\ sets = <<>>
    /\ current_y = 0
    /\ i_x = 0
    /\ frontier = <<>>
    /\ visited = <<>>
    /\ neighbours = <<>>
    /\ cellstack = <<>>
    /\ current_coordinates = <<0, 0>>
    /\ goal_coordinates = <<0, 0>>
    /\ max_q = 0
    /\ data = <<>>
    /\ callstack = <<>>
    /\ calls = 1

Init == InitFor(Algorithms)

NextEllers ==
    \/ EllersGenerate
    \/ EllersNextRow
    \/ EllersRandomlyJoin
    \/ EllersCreateDownward
    \/ EllersFleshOut
    \/ EllersJoinLastRows
    \/ EllersFinish

NextPrims ==
    \/ PrimsGenerate
    \/ PrimsCarve
    \/ PrimsFinish

NextGt ==
    \/ set_selectionmethod
    \/ GtGenerate
    \/ GtDeadEnd
    \/ GtCarve
    \/ GtFinish

NextRb ==
    \/ RbGenerate
    \/ RbCarve
    \/ RbFinish

Next ==
    \/ NextEllers
    \/ NextPrims
    \/ NextGt
    \/ NextRb

Spec == Init /\ [][Next]_vars

SpecEllers == InitFor({"ellers"}) /\ [][NextEllers]_vars

SpecPrims == InitFor({"prims"}) /\ [][NextPrims]_vars

SpecGt == InitFor({"growing_tree"}) /\ [][NextGt]_vars

SpecRb == InitFor({"rb"}) /\ [][NextRb]_vars

(* The steps of generate: once called, generate runs on until it returns *)
GenerateStep ==
    \/ NextEllers
    \/ NextPrims
    \/ GtGenerate
    \/ GtDeadEnd
    \/ GtCarve
    \/ GtFinish
    \/ NextRb

(* The grids on which the runs to completion are followed *)
FairCells == 4

InitFair ==
    /\ Init
    /\ width >= 1
    /\ height >= 1
    /\ width * height <= FairCells

SpecFair == InitFair /\ [][Next]_vars /\ WF_vars(GenerateStep)

(* The three generators that return a graph-based Maze *)
MazeAlgorithms == {"ellers", "prims", "growing_tree"}

NextMaze ==
    \/ NextEllers
    \/ NextPrims
    \/ NextGt

SpecMaze == InitFor(MazeAlgorithms) /\ [][NextMaze]_vars

(* The caller calls generate once more on the generator that has just
   returned a maze, with a valid size again.  The fields of the generator
   keep what the call before left in them; the Maze went to the caller and
   the locals of generate are gone. *)
GenerateAgain ==
    /\ alg \in MazeAlgorithms
    /\ pc = "done"
    /\ result = "ok"
    /\ width >= 1 /\ height >= 1
    /\ calls < MaxCalls
    /\ calls' = calls + 1
    /\ \E s \in SizesFor(alg) :
          /\ s[1] >= 1 /\ s[2] >= 1
          /\ width' = s[1]
          /\ height' = s[2]
    /\ pc' = "start"
    /\ result' = "none"
    /\ maze' = NoMaze
    /\ graph' = IF alg = "ellers" THEN graph ELSE <<>>
    /\ current_y' = 0
    /\ i_x' = 0
    /\ current_coordinates' = <<0, 0>>
    /\ goal_coordinates' = <<0, 0>>
    /\ max_q' = 0
    /\ UNCHANGED <<alg, selectionmethod, sets, frontier, visited, neighbours,
                   cellstack, data, callstack>>

(* The caller selects MostRecent before it calls generate *)
SetMostRecent ==
    /\ alg = "growing_tree"
    /\ pc = "start"
    /\ selectionmethod # 1
    /\ selectionmethod' = 1
    /\ UNCHANGED <<pc, result, maze, graph, visited, neighbours, cellstack,
                   current_coordinates, goal_coordinates, max_q>>
    /\ GtUnchanged

(* A fresh Growing Tree generator, generate to be called for the grid of
   MostRecentW x MostRecentH cells *)
InitMostRecent ==
    /\ alg = "growing_tree"
    /\ width = MostRecentW
    /\ height = MostRecentH
    /\ selectionmethod = 0
    /\ pc = "start"
    /\ result = "none"
    /\ maze = NoMaze
    /\ graph = <<>>
    /\ sets = <<>>
    /\ current_y = 0
    /\ i_x = 0
    /\ frontier = <<>>
    /\ visited = <<>>
    /\ neighbours = <<>>
    /\ cellstack = <<>>
    /\ current_coordinates = <<0, 0>>
    /\ goal_coordinates = <<0, 0>>
    /\ max_q = 0
    /\ data = <<>>
    /\ callstack = <<>>
    /\ calls = 1

NextMostRecent ==
    \/ SetMostRecent
    \/ selectionmethod = 1 /\ GtGenerate
    \/ GtDeadEnd
    \/ GtCarve
    \/ GtFinish

(* Growing Tree with MostRecent on the larger grid *)
SpecMostRecent == InitMostRecent /\ [][NextMostRecent]_vars

(* Calls of generate, one after the other, on one generator *)
SpecReuse == InitFor(MazeAlgorithms) /\ [][NextMaze \/ GenerateAgain]_vars

----------------------------------------------------------------------------
(* Notions the properties are stated with *)

(* The cells of the grid generate was called for *)
Cells == (0..(width - 1)) \X (0..(height - 1))

ValidSize == width >= 1 /\ height >= 1

Returned == pc = "done" /\ result = "ok"

(* The passages of a graph as a set of unordered pairs *)
EdgeSet(g) == {{g[i][1], g[i][2]} : i \in 1..Len(g)}

(* The cells joined to a cell of R by a path of edges of E *)
RECURSIVE ReachFrom(_, _)
ReachFrom(E, R) ==
    LET R2 == R \cup UNION {e \in E : e \cap R # {}}
    IN  IF R2 = R THEN R ELSE ReachFrom(E, R2)

(* No cycle: stripping the edges that end in a leaf leaves no edge *)
RECURSIVE HasNoCycle(_)
HasNoCycle(E) ==
    IF E = {} THEN TRUE
    ELSE LET leaf_edges == {e \in E : \E v \in e : \A f \in E \ {e} : v \notin f}
         IN  IF leaf_edges = {} THEN FALSE ELSE HasNoCycle(E \ leaf_edges)

(* E is a spanning tree of the cells C, which hold (0,0) *)
IsSpanningTree(E, C) ==
    /\ \A e \in E : Cardinality(e) = 2 /\ e \subseteq C
    /\ ReachFrom(E, {<<0, 0>>}) = C
    /\ HasNoCycle(E)
    /\ Cardinality(E) = Cardinality(C) - 1

(* The cell-to-cell connections of an RbGrid: two neighbouring cells each
   holding the passage flag that points to the other *)
RbConnections ==
    {{a, b} : <<a, b>> \in
        {p \in Cells \X Cells :
            \E d, e \in Directions :
                /\ next(p[1], d) = p[2]
                /\ next(p[2], e) = p[1]
                /\ rb_has_passage(data[coords2index(maze.size, p[1])], d)
                /\ rb_has_passage(data[coords2index(maze.size, p[2])], e)}}

----------------------------------------------------------------------------
(* join_sets_of_fields on its own: one call on a collection of sets and the
   graph that goes with it, for a pair of horizontally adjacent fields as
   randomly_join_fields and join_last_rows pass them *)

JoinHeight == 2

JoinCells == (0..(MaxW - 1)) \X (0..(JoinHeight - 1))

JoinGridEdges ==
    {{a, b} : <<a, b>> \in
        {p \in JoinCells \X JoinCells : \E d \in Directions : next(p[1], d) = p[2]}}

(* The edges of F as a graph, lesser end first *)
RECURSIVE JoinGraphOf(_)
JoinGraphOf(F) ==
    IF F = {} THEN <<>>
    ELSE LET e == CHOOSE x \in F : TRUE
             a == CHOOSE c \in e : \A d \in e \ {c} : CoordLess(c, d)
             b == CHOOSE c \in e : c # a
         IN  <<(<<a, b>>)>> \o JoinGraphOf(F \ {e})

(* The connected components of F as a collection of sets: one slot per
   cell, the component in the slot of its least cell, the other slots empty *)
JoinSetsOf(F) ==
    LET cs == SortedSeq(JoinCells)
    IN  [i \in 1..Len(cs) |->
            LET comp == ReachFrom(F, {cs[i]})
            IN  IF \A c \in comp \ {cs[i]} : CoordLess(cs[i], c) THEN comp ELSE {}]

InitJoin ==
    /\ alg = "ellers"
    /\ width = MaxW
    /\ height = JoinHeight
    /\ selectionmethod = 0
    /\ pc = "join_call"
    /\ result = "none"
    /\ maze = NoMaze
    /\ \E F \in {G \in SUBSET JoinGridEdges : HasNoCycle(G)} :
          /\ graph = JoinGraphOf(F)
          /\ sets = JoinSetsOf(F)
    /\ current_y \in 0..(JoinHeight - 1)
    /\ i_x \in 0..(MaxW - 2)
    /\ frontier = <<>>
    /\ visited = <<>>
    /\ neighbours = <<>>
    /\ cellstack = <<>>
    /\ current_coordinates = <<0, 0>>
    /\ goal_coordinates = <<0, 0>>
    /\ max_q = 0
    /\ data = <<>>
    /\ callstack = <<>>
    /\ calls = 1

(* The call join_sets_of_fields((i_x, current_y), (i_x + 1, current_y)) *)
JoinSetsOfFields ==
    /\ alg = "ellers"
    /\ pc = "join_call"
    /\ LET r == join_sets_of_fields(sets, graph, <<i_x, current_y>>,
                                    <<i_x + 1, current_y>>)
       IN  /\ sets' = r.sets
           /\ graph' = r.graph
           /\ result' = IF r.err THEN "internal_error" ELSE "ok"
    /\ pc' = "join_done"
    /\ UNCHANGED <<maze, current_y, i_x>>
    /\ EllersUnchanged

SpecJoin == InitJoin /\ [][JoinSetsOfFields]_vars

----------------------------------------------------------------------------
(* Properties *)

(* C1: for every valid size and every sequence of draws, the maze returned
   by Eller's generator is a spanning tree of the grid: all width*height
   cells are in one connected component, there is no cycle, and the graph
   has exactly width*height - 1 edges. *)
Thm_C1_EllersSpanningTree ==
    (alg = "ellers" /\ Returned /\ ValidSize) =>
        /\ IsSpanningTree(EdgeSet(graph), Cells)
        /\ Len(graph) = width * height - 1

Wit_C1_EllersTree3x3 ==
    /\ alg = "ellers" /\ Returned /\ width = 3 /\ height = 3
    /\ IsSpanningTree(EdgeSet(graph), Cells)
    /\ contains_edge(graph, <<1, 1>>, <<1, 2>>)
    /\ contains_edge(graph, <<0, 1>>, <<1, 1>>)

(* C2: for every valid size and every sequence of choices, the maze
   returned by Prim's generator is a spanning tree of the grid: every cell
   is connected to (0,0) and the graph has exactly width*height - 1 edges. *)
Thm_C2_PrimsSpanningTree ==
    (alg = "prims" /\ Returned /\ ValidSize) =>
        /\ ReachFrom(EdgeSet(graph), {<<0, 0>>}) = Cells
        /\ Len(graph) = width * height - 1
        /\ Cardinality(EdgeSet(graph)) = width * height - 1

Wit_C2_PrimsTree3x3 ==
    /\ alg = "prims" /\ Returned /\ width = 3 /\ height = 3
    /\ ReachFrom(EdgeSet(graph), {<<0, 0>>}) = Cells
    /\ Len(neighbors(graph, <<1, 1>>)) = 4

(* C3: for each selection method, every valid size and every sequence of
   choices, the maze returned by the Growing Tree generator is a spanning
   tree of the grid: when the loop has ended every cell has been visited and
   is connected, and the graph has exactly width*height - 1 edges. *)
Thm_C3_GrowingTreeSpanningTree ==
    (alg = "growing_tree" /\ Returned /\ ValidSize) =>
        /\ {visited[i] : i \in 1..Len(visited)} = Cells
        /\ IsSpanningTree(EdgeSet(graph), Cells)
        /\ Len(graph) = width * height - 1

Wit_C3_GrowingTreeEachMethod ==
    /\ alg = "growing_tree" /\ Returned /\ width = 3 /\ height = 3
    /\ selectionmethod = 2
    /\ IsSpanningTree(EdgeSet(graph), Cells)
    /\ Len(neighbors(graph, <<1, 1>>)) = 3

(* C4: for every valid size and every sequence of direction shuffles, the
   grid returned by the Recursive Backtracking generator is a spanning tree:
   its passages form exactly width*height - 1 undirected cell-to-cell
   connections, and exactly one path joins any two cells (the connections
   join all cells and hold no cycle). *)
Thm_C4_RbSpanningTree ==
    (alg = "rb" /\ Returned /\ ValidSize) =>
        /\ Cardinality(RbConnections) = width * height - 1
        /\ IsSpanningTree(RbConnections, Cells)

Wit_C4_RbTree3x2 ==
    /\ alg = "rb" /\ Returned /\ width = 3 /\ height = 2
    /\ IsSpanningTree(RbConnections, Cells)
    /\ data[coords2index(maze.size, <<1, 1>>)] = NORTH + EAST + WEST

(* The coordinates get_field is probed with: the grid and a margin around it *)
Probe == ((-1)..MaxW) \X ((-1)..MaxH)

(* C5: for a maze of size (width, height), get_field(c) returns a Field
   exactly when 0 <= c.x < width and 0 <= c.y < height and None for every
   other coordinate; so every coordinate of the grid of a generated maze
   yields a Field. *)
Thm_C5_GetFieldIffInside ==
    (alg \in MazeAlgorithms /\ Returned) =>
        /\ \A c \in Probe :
              get_field(maze, graph, c).is_some
                  <=> (0 <= c[1] /\ c[1] < width /\ 0 <= c[2] /\ c[2] < height)
        /\ \A c \in Cells :
              /\ get_field(maze, graph, c).is_some
              /\ get_field(maze, graph, c).coordinates = c

Wit_C5_FieldAndNone ==
    /\ alg = "prims" /\ Returned /\ width = 2 /\ height = 3
    /\ get_field(maze, graph, <<1, 2>>).is_some
    /\ get_field(maze, graph, <<1, 2>>).passages = <<"North", "West">>
    /\ ~get_field(maze, graph, <<2, 2>>).is_some
    /\ ~get_field(maze, graph, <<1, 3>>).is_some
    /\ ~get_field(maze, graph, <<-1, 0>>).is_some

(* C6: in every maze returned by the Eller's, Prim's and Growing Tree
   generators on a valid size, a path of passages joins start and goal. *)
Thm_C6_PathFromStartToGoal ==
    (alg \in MazeAlgorithms /\ Returned /\ ValidSize) =>
        maze.goal \in ReachFrom(EdgeSet(graph), {maze.start})

Wit_C6_GoalAwayFromStart ==
    /\ alg = "growing_tree" /\ Returned /\ width = 3 /\ height = 3
    /\ maze.start = <<0, 0>>
    /\ maze.goal = <<2, 2>>
    /\ maze.goal \in ReachFrom(EdgeSet(graph), {maze.start})

(* C7, as claimed: in every maze returned by the Eller's, Prim's and
   Growing Tree generators on a valid size with more than one cell, the goal
   differs from the start. *)
Cex_C7_GoalDiffersFromStart ==
    (alg \in MazeAlgorithms /\ Returned /\ ValidSize /\ width * height > 1) =>
        maze.goal # maze.start

(* C9: in every returned maze or grid, for every pair of in-bounds cells a
   and b = a.next(d), a has a passage in direction d if and only if b has a
   passage in direction d.opposite(). *)
Thm_C9_PassagesSymmetric ==
    Returned =>
        \A a \in Cells : \A d \in Directions :
            LET b == next(a, d)
            IN  b \in Cells =>
                  IF alg = "rb"
                  THEN rb_has_passage(data[coords2index(maze.size, a)], d)
                         <=> rb_has_passage(data[coords2index(maze.size, b)], opposite(d))
                  ELSE has_passage(get_field(maze, graph, a), d)
                         <=> has_passage(get_field(maze, graph, b), opposite(d))

Wit_C9_PassageBothWays ==
    /\ alg = "rb" /\ Returned /\ width = 2 /\ height = 2
    /\ rb_has_passage(data[coords2index(maze.size, <<0, 0>>)], "South")
    /\ rb_has_passage(data[coords2index(maze.size, <<0, 1>>)], "North")
    /\ ~rb_has_passage(data[coords2index(maze.size, <<0, 0>>)], "East")
    /\ ~rb_has_passage(data[coords2index(maze.size, <<1, 0>>)], "West")

(* C10, as claimed: generate with width <= 0 or height <= 0 ends with an
   invalid-input error: it does not panic, does not return an internal
   error and does not return a Maze. *)
Cex_C10_InvalidInputRejected ==
    (pc = "done" /\ ~ValidSize) => result = "invalid_input"

(* C11: for every width >= 1 and height >= 1 and every sequence of draws,
   generate on a fresh Eller's or Prim's generator returns Ok(maze): no run
   ends on an InternalError path (a coordinate in no set, a set position not
   found, no empty set slot in flesh_out_next_row, a frontier position not
   found) nor in a panic. *)
Thm_C11_NoInternalError ==
    (alg \in {"ellers", "prims"} /\ ValidSize) =>
        /\ result \in {"none", "ok"}
        /\ pc = "done" => result = "ok"

Wit_C11_EllersOkAfterJoins ==
    /\ alg = "ellers" /\ Returned /\ width = 3 /\ height = 3
    /\ \E i \in 1..Len(sets) : sets[i] = Cells
    /\ Cardinality({i \in 1..Len(sets) : sets[i] = {}}) = 2

(* The passages of the structure a generator is building, as pairs
   <<cell, cell the passage leads to>> *)
PassagePairs ==
    IF alg = "rb"
    THEN IF pc = "start" THEN {}
         ELSE {<<a, next(a, d)>> : <<a, d>> \in
                  {q \in Cells \X Directions :
                      rb_has_passage(data[coords2index(<<width, height>>, q[1])], q[2])}}
    ELSE {<<graph[i][1], graph[i][2]>> : i \in 1..Len(graph)}
           \cup {<<graph[i][2], graph[i][1]>> : i \in 1..Len(graph)}

ManhattanDistance(a, b) ==
    (IF a[1] >= b[1] THEN a[1] - b[1] ELSE b[1] - a[1])
        + (IF a[2] >= b[2] THEN a[2] - b[2] ELSE b[2] - a[2])

(* C12: in every reachable state of every generator each edge of the
   connectivity graph (each passage flag of the RbGrid) joins two cells that
   both lie inside [0,width) x [0,height) and are at Manhattan distance 1; so
   no cell has a passage leading out of the grid, and no cell of the bottom
   row has a passage to the south. *)
Thm_C12_EdgesJoinNeighboursInside ==
    /\ \A p \in PassagePairs :
          /\ p[1] \in Cells
          /\ p[2] \in Cells
          /\ ManhattanDistance(p[1], p[2]) = 1
    /\ \A x \in 0..(width - 1) :
          height >= 1 => <<(<<x, height - 1>>), (<<x, height>>)>> \notin PassagePairs

Wit_C12_BottomRowJoined ==
    /\ alg = "ellers" /\ Returned /\ width = 3 /\ height = 3
    /\ get_field(maze, graph, <<1, 2>>).passages = <<"North", "East", "West">>
    /\ <<(<<1, 1>>), (<<1, 2>>)>> \in PassagePairs

(* C13: in every maze returned by any generator for width >= 1 and
   height >= 1 the start is (0,0) and both start and goal lie inside
   [0,width) x [0,height); the Recursive Backtracking generator leaves the
   goal at (0,0). *)
Thm_C13_StartAndGoalInside ==
    (Returned /\ ValidSize) =>
        /\ maze.size = <<width, height>>
        /\ maze.start = <<0, 0>>
        /\ are_coordinates_inside(maze.size, maze.start)
        /\ are_coordinates_inside(maze.size, maze.goal)
        /\ alg = "rb" => maze.goal = <<0, 0>>

Wit_C13_GoalInFarCorner ==
    /\ alg = "ellers" /\ Returned /\ width = 3 /\ height = 2
    /\ maze.start = <<0, 0>>
    /\ maze.goal = <<2, 1>>
    /\ are_coordinates_inside(maze.size, maze.goal)

(* C14: for every generator and every sequence of draws generate(1, 1)
   ends without panic or internal error and returns a maze with no edge (no
   passage flag) and start = goal = (0,0). *)
Thm_C14_SingleCell ==
    (width = 1 /\ height = 1) =>
        /\ result \in {"none", "ok"}
        /\ PassagePairs = {}
        /\ pc = "done" =>
              /\ result = "ok"
              /\ maze.start = <<0, 0>>
              /\ maze.goal = <<0, 0>>
              /\ IF alg = "rb" THEN data = [i \in {0} |-> NONE] ELSE graph = <<>>

Wit_C14_SingleCellReturned ==
    /\ alg = "prims" /\ Returned /\ width = 1 /\ height = 1
    /\ graph = <<>>
    /\ visited = <<(<<0, 0>>)>>
    /\ maze.goal = maze.start

(* The number of edges of E on a shortest path from a cell of R to the
   target, d being the distance already covered; -1 when no path exists *)
RECURSIVE DistFrom(_, _, _, _)
DistFrom(E, R, target, d) ==
    IF target \in R THEN d
    ELSE LET R2 == R \cup UNION {e \in E : e \cap R # {}}
         IN  IF R2 = R THEN -1 ELSE DistFrom(E, R2, target, d + 1)

(* C15, as claimed: on every spanning tree returned by the Eller's or the
   Prim's generator the goal found by find_suitable_goal is at maximal
   shortest-path distance from the start: no cell is farther from the start
   than the goal. *)
Cex_C15_GoalIsFarthest ==
    (alg \in {"ellers", "prims"} /\ Returned /\ ValidSize) =>
        \A c \in Cells :
            DistFrom(EdgeSet(graph), {maze.start}, c, 0)
                <= DistFrom(EdgeSet(graph), {maze.start}, maze.goal, 0)

(* C16, as claimed: in a sequence of generate calls with valid sizes on one
   Eller's, Prim's or Growing Tree generator, every call, not only the
   first, returns a spanning tree over its full width*height grid. *)
Cex_C16_EveryCallSpanningTree ==
    (alg \in MazeAlgorithms /\ Returned /\ ValidSize) =>
        IsSpanningTree(EdgeSet(graph), Cells)

(* In the tree E rooted at (0,0), a lies on the path from the root to b *)
IsAncestor(E, a, b) ==
    \/ a = <<0, 0>>
    \/ a = b
    \/ b \notin ReachFrom({e \in E : a \notin e}, {<<0, 0>>})

(* E is a depth-first-search tree of the grid C rooted at (0,0): a spanning
   tree in which every two neighbouring cells that E does not join are an
   ancestor and its descendant *)
IsDfsTree(E, C) ==
    /\ IsSpanningTree(E, C)
    /\ \A a, b \in C :
          (ManhattanDistance(a, b) = 1 /\ {a, b} \notin E) =>
              IsAncestor(E, a, b) \/ IsAncestor(E, b, a)

(* C17, as claimed: the mazes the Growing Tree generator returns with
   selection method MostRecent (1) are those of Recursive Backtracking,
   that is, depth-first-search trees rooted at (0,0). *)
Cex_C17_MostRecentIsDepthFirst ==
    (alg = "growing_tree" /\ selectionmethod = 1 /\ Returned /\ ValidSize) =>
        IsDfsTree(EdgeSet(graph), Cells)

(* C18: on every run of a fresh Prim's generator with a valid size, every
   cell of the frontier, so whichever cell is chosen from it, has at least
   one visited neighbour inside the grid; the list of visited neighbours
   found for a chosen cell is never empty, and the branch that clears the
   frontier is never taken. *)
Thm_C18_FrontierCellHasVisitedNeighbour ==
    (alg = "prims" /\ ValidSize /\ pc \in {"loop", "done"}) =>
        /\ \A i \in 1..Len(frontier) :
              /\ frontier[i] \in Cells
              /\ ~Contains(visited, frontier[i])
              /\ \E d \in Directions :
                    /\ next(frontier[i], d) \in Cells
                    /\ Contains(visited, next(frontier[i], d))
              /\ find_visited_neighbours(visited, maze.size, frontier[i]) # <<>>
        /\ Len(visited) >= 2 => neighbours # <<>>
        /\ Len(graph) = Len(visited) - 1

Wit_C18_ChosenCellTwoVisitedNeighbours ==
    /\ alg = "prims" /\ pc = "loop" /\ width = 3 /\ height = 3
    /\ Len(frontier) >= 3
    /\ Len(neighbours) = 2
    /\ Len(visited) = 4

(* The cells of row y + 1 in the set that an edge joins to their northern
   neighbour, itself in the set *)
DownwardConnected(i_set, g, y) ==
    {c \in i_set : /\ c[2] = y + 1
                   /\ next(c, "North") \in i_set
                   /\ contains_edge(g, next(c, "North"), c)}

(* C19: for every row y < height - 1, once create_downward_connections(y)
   has run, every non-empty set holds at least one cell of row y + 1 that a
   graph edge joins to its northern neighbour in the same set; while it
   runs, this holds of the sets it has passed. *)
Thm_C19_EverySetConnectedDownward ==
    (alg = "ellers" /\ ValidSize /\ pc \in {"down", "flesh"}) =>
        /\ current_y < height - 1
        /\ \A i \in 1..Len(sets) :
              (sets[i] # {} /\ (pc = "flesh" \/ i <= i_x)) =>
                  DownwardConnected(sets[i], graph, current_y) # {}

Wit_C19_WideSetConnected ==
    /\ alg = "ellers" /\ pc = "flesh" /\ width = 3 /\ height = 3
    /\ current_y = 1
    /\ \E i \in 1..Len(sets) :
          /\ Cardinality({c \in sets[i] : c[2] = 1}) >= 2
          /\ DownwardConnected(sets[i], graph, 1) # {}

(* The numbers of members of a set that create_downward_connections can
   connect downward, the set having the current-row members bottom *)
DownwardOutcomes(bottom) ==
    {Len(sel) : sel \in ChooseMultiple(Len(bottom), DownwardCount(bottom))}

(* C20, as claimed: when create_downward_connections comes to a set with k
   current-row members, the number of members it connects downward is
   between 1 and k and every number from 1 to k is a possible outcome of the
   draw, so a set with two or more current-row members can get more than
   one downward connection. *)
Cex_C20_AnyCountUpToAll ==
    (alg = "ellers" /\ ValidSize /\ pc = "down" /\ i_x < Len(sets)
        /\ sets[i_x + 1] # {}) =>
        LET bottom == bottom_most_fields(sets[i_x + 1], current_y)
        IN  DownwardOutcomes(bottom) = 1..Len(bottom)

(* The slot of the collection ss that holds the field *)
SlotOf(ss, field) == CHOOSE i \in 1..Len(ss) : field \in ss[i]

(* C21: join_sets_of_fields(f1, f2) on fields in different sets merges the
   two sets into the slot of the first, empties the slot of the second and
   appends exactly the edge f1-f2, the two fields not being connected
   before; on fields of one set it leaves the collection of sets and the
   graph as they are. *)
Thm_C21_JoinMergesOrLeavesAlone ==
    [][(pc = "join_call" /\ pc' = "join_done") =>
          LET f1 == <<i_x, current_y>>
              f2 == <<i_x + 1, current_y>>
              a  == SlotOf(sets, f1)
              b  == SlotOf(sets, f2)
          IN  /\ result' = "ok"
              /\ IF a # b
                 THEN /\ sets' = [[sets EXCEPT ![a] = sets[a] \cup sets[b]]
                                        EXCEPT ![b] = {}]
                      /\ graph' = Append(graph, <<f1, f2>>)
                      /\ ~contains_edge(graph, f1, f2)
                      /\ f2 \notin ReachFrom(EdgeSet(graph), {f1})
                 ELSE /\ sets' = sets
                      /\ graph' = graph]_vars

Wit_C21_TwoSetsMerged ==
    /\ pc = "join_done" /\ result = "ok"
    /\ i_x = 1 /\ current_y = 1
    /\ Len(graph) = 3
    /\ graph[3] = <<(<<1, 1>>), (<<2, 1>>)>>
    /\ \E i \in 1..Len(sets) :
          /\ Cardinality(sets[i]) = 4
          /\ {<<1, 1>>, <<2, 1>>} \subseteq sets[i]

(* The cells of the last row of the grid *)
LastRow == {c \in Cells : c[2] = height - 1}

(* C22: once join_last_rows(height - 1) has run, all cells of the last row
   are in one single set and joined to each other by paths of the graph,
   for every height >= 1; for height = 1 the graph is one corridor: exactly
   the width - 1 horizontal edges and no vertical edge. *)
Thm_C22_LastRowOneSet ==
    (alg = "ellers" /\ ValidSize /\ (pc = "finish" \/ Returned)) =>
        /\ \E i \in 1..Len(sets) : LastRow \subseteq sets[i]
        /\ Cardinality({i \in 1..Len(sets) : sets[i] \cap LastRow # {}}) = 1
        /\ \A c \in LastRow : LastRow \subseteq ReachFrom(EdgeSet(graph), {c})
        /\ height = 1 =>
              /\ Len(graph) = width - 1
              /\ EdgeSet(graph) = {{<<x, 0>>, <<x + 1, 0>>} : x \in 0..(width - 2)}

Wit_C22_SingleRowCorridor ==
    /\ alg = "ellers" /\ pc = "finish" /\ width = 3 /\ height = 1
    /\ graph = << <<(<<0, 0>>), (<<1, 0>>)>>, <<(<<1, 0>>), (<<2, 0>>)>> >>
    /\ sets[1] = LastRow

(* The current cell has no unvisited neighbour inside the grid *)
AtDeadEnd ==
    \A d \in Directions :
        \/ next(current_coordinates, d) \notin Cells
        \/ Contains(visited, next(current_coordinates, d))

(* The cell stack without the current cell *)
StackWithoutCurrent == SelectSeq(cellstack, LAMBDA c : c # current_coordinates)

(* C23: on a dead end that leaves the cell stack non-empty, MostRecent (1)
   makes the last element of the stack the current cell and removes it,
   Random (2) makes an element at some index the current cell and leaves
   the stack as it is, and every other value, the default 0 included, makes
   the element at index 0 the current cell and removes it. *)
Thm_C23_SelectionOnDeadEnd ==
    [][(/\ alg = "growing_tree" /\ pc = "loop" /\ pc' = "loop"
        /\ cellstack # <<>> /\ AtDeadEnd /\ StackWithoutCurrent # <<>>) =>
          LET cs == StackWithoutCurrent
          IN  CASE selectionmethod = 1 ->
                     /\ current_coordinates' = cs[Len(cs)]
                     /\ cellstack' = SubSeq(cs, 1, Len(cs) - 1)
                [] selectionmethod = 2 ->
                     /\ \E r \in 1..Len(cs) : current_coordinates' = cs[r]
                     /\ cellstack' = cs
                [] OTHER ->
                     /\ current_coordinates' = cs[1]
                     /\ cellstack' = Tail(cs)]_vars

Wit_C23_RandomKeepsStack ==
    /\ alg = "growing_tree" /\ pc = "loop" /\ selectionmethod = 2
    /\ width = 3 /\ height = 3
    /\ neighbours = <<>> /\ Len(visited) >= 4
    /\ Len(cellstack) >= 3
    /\ current_coordinates = cellstack[1]

(* C24: the goal the Growing Tree generator returns is the cell pushed at
   the first moment the cell stack reached its greatest length of the run.
   Step by step: the search starts with no length recorded and the start as
   goal; a push that makes the stack longer than every length recorded so
   far records the new length and the pushed cell; a push to a length that
   was already reached, and a step that pushes nothing, leave both alone;
   generate returns the recorded cell.  On a single cell nothing is pushed
   and the goal is the start. *)
Thm_C24_GoalAtFirstLongestStack ==
    [][alg = "growing_tree" =>
         /\ (pc = "start" /\ pc' = "loop") =>
               /\ max_q' = 0
               /\ goal_coordinates' = <<0, 0>>
               /\ cellstack' = <<(<<0, 0>>)>>
         /\ (pc = "loop" /\ pc' = "loop" /\ Len(cellstack') > Len(cellstack)) =>
               IF Len(cellstack') > max_q
               THEN /\ max_q' = Len(cellstack')
                    /\ goal_coordinates' = cellstack'[Len(cellstack')]
                    /\ goal_coordinates' = visited'[Len(visited')]
               ELSE UNCHANGED <<max_q, goal_coordinates>>
         /\ (pc = "loop" /\ pc' = "loop" /\ Len(cellstack') <= Len(cellstack)) =>
               UNCHANGED <<max_q, goal_coordinates>>
         /\ (pc = "loop" /\ pc' = "done") =>
               /\ maze'.goal = goal_coordinates
               /\ (width = 1 /\ height = 1) => maze'.goal = <<0, 0>>
               /\ (ValidSize /\ width * height > 1) =>
                     /\ max_q >= 2
                     /\ Contains(visited, goal_coordinates)]_vars

Wit_C24_GoalNotLastPushed ==
    /\ alg = "growing_tree" /\ Returned /\ width = 3 /\ height = 3
    /\ maze.goal = goal_coordinates
    /\ selectionmethod = 2
    /\ max_q >= 4
    /\ max_q < Len(visited)
    /\ maze.goal # visited[Len(visited)]

(* The elements of a sequence *)
Range(s) == {s[i] : i \in 1..Len(s)}

NoDuplicates(s) == \A i, j \in 1..Len(s) : s[i] = s[j] => i = j

(* C25: on a fresh Prim's generator with a valid size, after every step
   the frontier has no duplicate, the frontier and the visited list are
   disjoint, every frontier cell is inside the grid and next to a visited
   cell, and the visited list has no duplicate; a cell enters the frontier
   only when it is neither visited nor in the frontier and next to the cell
   just marked, and leaves it only as the cell just marked visited; once
   the frontier is empty the visited list holds every cell of the grid
   exactly once. *)
Thm_C25_PrimsBookkeeping ==
    [][(alg = "prims" /\ ValidSize /\ pc' \in {"loop", "done"}) =>
         /\ NoDuplicates(frontier')
         /\ NoDuplicates(visited')
         /\ Range(frontier') \cap Range(visited') = {}
         /\ Range(visited') \subseteq Cells
         /\ \A c \in Range(frontier') :
               /\ c \in Cells
               /\ \E v \in Range(visited') : ManhattanDistance(c, v) = 1
         /\ Cardinality(Range(visited') \ Range(visited)) <= 1
         /\ \A c \in Range(frontier') \ Range(frontier) :
               /\ c \notin Range(visited)
               /\ \E v \in Range(visited') \ Range(visited) :
                     ManhattanDistance(c, v) = 1
         /\ \A c \in Range(frontier) \ Range(frontier') :
               Range(visited') \ Range(visited) = {c}
         /\ frontier' = <<>> =>
               /\ Range(visited') = Cells
               /\ Len(visited') = width * height]_vars

Wit_C25_AllVisitedOnce ==
    /\ alg = "prims" /\ Returned /\ width = 3 /\ height = 3
    /\ frontier = <<>>
    /\ Len(visited) = 9
    /\ Range(visited) = Cells
    /\ visited[9] = <<1, 1>>

(* C26: for every width >= 1 and height >= 1 and every sequence of draws,
   generate of each generator comes to its end and returns: the Growing
   Tree loop with an empty cell stack, the Prim's loop with an empty
   frontier, the Recursive Backtracking recursion with no frame left, the
   Eller's and Prim's generators with the goal search done. *)
Thm_C26_GenerateTerminates ==
    <>(/\ pc = "done"
       /\ result = "ok"
       /\ cellstack = <<>>
       /\ frontier = <<>>
       /\ callstack = <<>>
       /\ maze.goal \in Cells)

Wit_C26_RecursionReturned ==
    /\ alg = "rb" /\ Returned /\ width = 2 /\ height = 2
    /\ callstack = <<>>
    /\ \A i \in 0..3 : ~is_untouched(data[i])

(* The cells that have been placed in a set *)
PlacedCells == UNION {sets[i] : i \in 1..Len(sets)}

(* C27: between the steps of Eller's generate on a valid size there are
   exactly width set slots, the non-empty sets are pairwise disjoint, every
   cell of the current row is in exactly one set, and two placed cells are
   in one set if and only if a path of graph edges joins them. *)
Thm_C27_EllersSets ==
    (alg = "ellers" /\ ValidSize /\ pc # "start") =>
        /\ Len(sets) = width
        /\ \A i, j \in 1..Len(sets) : i # j => sets[i] \cap sets[j] = {}
        /\ \A x \in 0..(width - 1) :
              Cardinality({i \in 1..Len(sets) : <<x, current_y>> \in sets[i]}) = 1
        /\ \A a, b \in PlacedCells :
              (\E i \in 1..Len(sets) : a \in sets[i] /\ b \in sets[i])
                  <=> b \in ReachFrom(EdgeSet(graph), {a})

Wit_C27_SetsOverTwoRows ==
    /\ alg = "ellers" /\ width = 3 /\ height = 3
    /\ pc = "join" /\ current_y = 1 /\ i_x = 1
    /\ \E i \in 1..Len(sets) : Cardinality(sets[i]) = 3
    /\ \E i \in 1..Len(sets) : Cardinality(sets[i]) = 2
    /\ \E i \in 1..Len(sets) : Cardinality(sets[i]) = 1
    /\ Len(graph) = 3

(* The cells of a set on row y *)
RowMembers(i_set, y) == {c \in i_set : c[2] = y}

(* C28: create_downward_connections(y) runs only in states where every
   non-empty set has a member in row y, so the draw of gen_range(1, 0) on an
   empty list of current-row members, and its panic, never happen; each
   non-empty set gets exactly one downward connection per row: one cell of
   row y + 1 and one edge, from one of its members in row y. *)
Thm_C28_OneDownwardPerSet ==
    [][(alg = "ellers" /\ pc = "down") =>
          /\ i_x < Len(sets)
          /\ \A i \in 1..Len(sets) :
                sets[i] # {} => RowMembers(sets[i], current_y) # {}
          /\ result' # "panic"
          /\ sets[i_x + 1] = {} => (sets' = sets /\ graph' = graph)
          /\ sets[i_x + 1] # {} =>
                \E c \in RowMembers(sets[i_x + 1], current_y) :
                    /\ next(c, "South") \notin PlacedCells
                    /\ sets' = [sets EXCEPT ![i_x + 1] = @ \cup {next(c, "South")}]
                    /\ graph' = Append(graph, <<c, next(c, "South")>>)
          /\ pc' = "flesh" =>
                \A i \in 1..Len(sets') :
                    sets'[i] # {} =>
                        /\ Cardinality(RowMembers(sets'[i], current_y + 1)) = 1
                        /\ Cardinality(DownwardConnected(sets'[i], graph',
                                                         current_y)) = 1]_vars

Wit_C28_OneOfThreeConnected ==
    /\ alg = "ellers" /\ pc = "flesh" /\ width = 3 /\ height = 2
    /\ \E i \in 1..Len(sets) :
          /\ Cardinality(RowMembers(sets[i], 0)) = 3
          /\ RowMembers(sets[i], 1) = {<<1, 1>>}
    /\ Len(graph) = 3

(* C29: on a fresh Prim's or Growing Tree generator, after every loop
   iteration the graph edges form a tree spanning exactly the cells of the
   visited list (connected, one edge fewer than visited cells); every edge
   added joins a cell visited before to a cell not visited before, which
   becomes visited; the Growing Tree cell stack holds visited cells only,
   none of them twice. *)
Thm_C29_TreeGrowth ==
    [][(alg \in {"prims", "growing_tree"} /\ pc' = "loop") =>
          /\ NoDuplicates(visited')
          /\ Len(graph') = Len(visited') - 1
          /\ Cardinality(EdgeSet(graph')) = Len(graph')
          /\ \A e \in EdgeSet(graph') : e \subseteq Range(visited')
          /\ ReachFrom(EdgeSet(graph'), {visited'[1]}) = Range(visited')
          /\ graph' # graph =>
                \E a \in Range(visited) :
                    \E b \in Cells \ Range(visited) :
                        /\ graph' \in {Append(graph, <<a, b>>), Append(graph, <<b, a>>)}
                        /\ visited' = Append(visited, b)
          /\ alg = "growing_tree" =>
                /\ Range(cellstack') \subseteq Range(visited')
                /\ NoDuplicates(cellstack')]_vars

Wit_C29_TreeWithCurrentOffStack ==
    /\ alg = "growing_tree" /\ pc = "loop" /\ selectionmethod = 1
    /\ width = 3 /\ height = 3
    /\ Len(visited) >= 7
    /\ Len(graph) = Len(visited) - 1
    /\ cellstack # <<>>
    /\ ~Contains(cellstack, current_coordinates)

====
